---- MODULE Spec2Model ----
(***************************************************************************)
(* Model of session_log.py: Session (CSV / JSON conversions) and           *)
(* TrainingLog (load, update_file, write, update_from_csv_str).            *)
(*                                                                         *)
(* Strings are sequences of one-character strings.  A file is a record     *)
(* [exists, text]; the text of a journal file is a sequence of tokens, a   *)
(* token being one JSON object, one newline, or one piece of text that is  *)
(* not JSON.  A datetime is a day number (the program only handles         *)
(* midnight datetimes); None is NoDate.  A Python object carries an id,    *)
(* because Session defines no __eq__ and == on it is object identity.      *)
(***************************************************************************)
EXTENDS Naturals, Integers, Sequences, FiniteSets, TLC

\* ------------------------------------------------------------------ bounds
MaxCalls == 3
MaxDate == 2
MaxLen == 2
MaxCrashes == 1
MaxConcCalls == 2

Dates == 1..MaxDate
NoDate == 0
MsPerDay == 86400000

\* ------------------------------------------------------------ string tools
NL == "\n"
COMMA == ","
SPACE == " "

Digits == {"0", "1", "2", "3", "4", "5", "6", "7", "8", "9"}

DigitVal(c) ==
  CASE c = "0" -> 0 [] c = "1" -> 1 [] c = "2" -> 2 [] c = "3" -> 3
    [] c = "4" -> 4 [] c = "5" -> 5 [] c = "6" -> 6 [] c = "7" -> 7
    [] c = "8" -> 8 [] c = "9" -> 9

\* position of the first occurrence of c in s, 0 when there is none
IndexOf(s, c) ==
  IF \E i \in 1..Len(s) : s[i] = c
    THEN CHOOSE i \in 1..Len(s) : s[i] = c /\ \A j \in 1..(i - 1) : s[j] # c
    ELSE 0

RECURSIVE split(_, _)
\* str.split(sep): n separators give n + 1 pieces
split(s, sep) ==
  LET i == IndexOf(s, sep) IN
    IF i = 0 THEN <<s>>
    ELSE <<SubSeq(s, 1, i - 1)>> \o split(SubSeq(s, i + 1, Len(s)), sep)

RECURSIVE splitlines(_)
\* str.splitlines(): no line for the empty string or after a final newline
splitlines(s) ==
  IF s = <<>> THEN <<>>
  ELSE LET i == IndexOf(s, NL) IN
         IF i = 0 THEN <<s>>
         ELSE <<SubSeq(s, 1, i - 1)>> \o splitlines(SubSeq(s, i + 1, Len(s)))

RECURSIVE lstrip(_)
lstrip(s) == IF s # <<>> /\ Head(s) = SPACE THEN lstrip(Tail(s)) ELSE s

RECURSIVE rstrip(_)
rstrip(s) ==
  IF s # <<>> /\ s[Len(s)] = SPACE THEN rstrip(SubSeq(s, 1, Len(s) - 1)) ELSE s

\* str.strip()
strip(s) == rstrip(lstrip(s))

RECURSIVE DigitsValue(_)
DigitsValue(s) ==
  IF s = <<>> THEN 0
  ELSE 10 * DigitsValue(SubSeq(s, 1, Len(s) - 1)) + DigitVal(s[Len(s)])

IsDigits(s) == s # <<>> /\ \A i \in 1..Len(s) : s[i] \in Digits

\* int(str): surrounding blanks, an optional sign, then digits
int_ok(s) ==
  LET t == strip(s) IN
    IF t # <<>> /\ Head(t) \in {"-", "+"} THEN IsDigits(Tail(t)) ELSE IsDigits(t)

int(s) ==
  LET t == strip(s) IN
    IF Head(t) = "-" THEN 0 - DigitsValue(Tail(t))
    ELSE IF Head(t) = "+" THEN DigitsValue(Tail(t))
    ELSE DigitsValue(t)

\* ------------------------------------------------------------------- Route
\* the records create_route accepts: a tuple or a dict (isinstance tests)
TupleRec(grade, type, perf) == [isa |-> "tuple", v |-> <<grade, type, perf>>]
DictRec(d) == [isa |-> "dict", v |-> d]

\* create_route that takes the index a dict brings along
create_route_trusting_idx(idx, rec) ==
  IF rec.isa = "dict"
    THEN [index |-> rec.v.idx, grade |-> rec.v.grade, type |-> rec.v.type,
          perf |-> rec.v.perf]
    ELSE [index |-> idx, grade |-> rec.v[1], type |-> rec.v[2], perf |-> rec.v[3]]

\* create_route: Route(idx, ...) from rec[0..2] of a tuple, or from the keys
\* grade / type / perf of a dict (a key idx of the dict is not read)
create_route(idx, rec) ==
  IF rec.isa = "dict"
    THEN [index |-> idx, grade |-> rec.v.grade, type |-> rec.v.type, perf |-> rec.v.perf]
    ELSE [index |-> idx, grade |-> rec.v[1], type |-> rec.v[2], perf |-> rec.v[3]]

\* ----------------------------------------------------------------- Session
NoSession == [bound |-> FALSE, id |-> 0, date |-> NoDate, routes |-> <<>>]

\* datetime.date.today() at midnight; the clock reading is the argument
curr_date_as_datetime(today) == today

\* Session.__init__: 'date or today', routes numbered by enumerate()
Session_init(id, routes, date, today) ==
  [bound |-> TRUE,
   id |-> id,
   date |-> IF date # NoDate THEN date ELSE curr_date_as_datetime(today),
   routes |-> [i \in 1..Len(routes) |-> create_route(i - 1, routes[i])]]

\* Session has no __eq__: == is inherited from object and compares identity
Session_eq(a, b) == a.id = b.id

\* json_util.default on a datetime: {"$date": milliseconds since the epoch}
json_date(d) == d * MsPerDay

\* json_util.loads on {"$date": ms}
json_date_loads(ms) == ms \div MsPerDay

JsonNewline == [kind |-> "nl", date |-> 0, routes |-> <<>>]
JsonJunk == [kind |-> "junk", date |-> 0, routes |-> <<>>]

\* Session.to_json: one JSON object, routes as idx / grade / type / perf
to_json(s) ==
  [kind |-> "obj",
   date |-> json_date(s.date),
   routes |-> [i \in 1..Len(s.routes) |->
                 [idx |-> s.routes[i].index, grade |-> s.routes[i].grade,
                  type |-> s.routes[i].type, perf |-> s.routes[i].perf]]]

\* what json_util.loads sees of a line: its tokens without the white space
json_body(line) == SelectSeq(line, LAMBDA t : t.kind # "nl")

\* json_util.loads(line) succeeds on exactly one JSON object
from_json_ok(line) == Len(json_body(line)) = 1 /\ json_body(line)[1].kind = "obj"

\* Session.from_json: cls(**json_util.loads(json_str))
from_json(line, id) ==
  LET obj == json_body(line)[1] IN
    Session_init(id, [i \in 1..Len(obj.routes) |-> DictRec(obj.routes[i])],
                 json_date_loads(obj.date), NoDate)

\* the lines of from_csv_str that raise: parts[2] missing, or int() failing
csv_line_ok(route_line) ==
  LET parts == split(route_line, COMMA) IN
    Len(parts) >= 3 /\ int_ok(parts[3])

from_csv_str_ok(csv_str) ==
  \A i \in 1..Len(splitlines(csv_str)) : csv_line_ok(splitlines(csv_str)[i])

\* Session.from_csv_str
from_csv_str(csv_str, date, today, id) ==
  LET lines == splitlines(csv_str)
      routes == [i \in 1..Len(lines) |->
                   LET parts == split(lines[i], COMMA) IN
                     TupleRec(strip(parts[1]), strip(parts[2]), int(parts[3]))]
  IN Session_init(id, routes, date, today)

\* ------------------------------------------------------------- TrainingLog
Absent == [exists |-> FALSE, text |-> <<>>]
NoLog == [bound |-> FALSE, sessions |-> <<>>]

RECURSIVE readlines(_)
\* fp.readlines(): each line keeps its newline; no line after a final newline
readlines(text) ==
  IF text = <<>> THEN <<>>
  ELSE LET i == IndexOf(text, JsonNewline) IN
         IF i = 0 THEN <<text>>
         ELSE <<SubSeq(text, 1, i)>> \o readlines(SubSeq(text, i + 1, Len(text)))

RECURSIVE join(_, _)
\* sep.join(items)
join(sep, items) ==
  IF items = <<>> THEN <<>>
  ELSE IF Len(items) = 1 THEN <<items[1]>>
  ELSE <<items[1], sep>> \o join(sep, Tail(items))

\* dump_jsons that serializes only the Session appended last
dump_jsons_last_only(sessions) ==
  IF sessions = <<>> THEN <<>> ELSE <<to_json(sessions[Len(sessions)])>>

\* dump_jsons that joins the lines with the empty string
dump_jsons_unseparated(sessions) ==
  [i \in 1..Len(sessions) |-> to_json(sessions[i])]

\* TrainingLog.dump_jsons
dump_jsons(sessions) ==
  join(JsonNewline, [i \in 1..Len(sessions) |-> to_json(sessions[i])])

\* load that opens the file without the os.path.exists test
load_missing_is_error(file) ==
  IF ~file.exists THEN [ok |-> FALSE, sessions |-> <<>>]
  ELSE LET lines == readlines(file.text) IN
         IF \A i \in 1..Len(lines) : from_json_ok(lines[i])
           THEN [ok |-> TRUE,
                 sessions |-> [i \in 1..Len(lines) |-> from_json(lines[i], i)]]
           ELSE [ok |-> FALSE, sessions |-> <<>>]

\* load that skips the lines Session.from_json cannot read
load_skipping_bad_lines(file) ==
  IF ~file.exists THEN [ok |-> TRUE, sessions |-> <<>>]
  ELSE LET good == SelectSeq(readlines(file.text), from_json_ok) IN
         [ok |-> TRUE, sessions |-> [i \in 1..Len(good) |-> from_json(good[i], i)]]

\* TrainingLog.load: the empty log for a missing file, else every line
\* through Session.from_json; one line that raises aborts the whole load
load(file) ==
  IF ~file.exists THEN [ok |-> TRUE, sessions |-> <<>>]
  ELSE LET lines == readlines(file.text) IN
         IF \A i \in 1..Len(lines) : from_json_ok(lines[i])
           THEN [ok |-> TRUE,
                 sessions |-> [i \in 1..Len(lines) |-> from_json(lines[i], i)]]
           ELSE [ok |-> FALSE, sessions |-> <<>>]

\* update_file that keeps the old file and opens it with mode 'a'
update_file_appending(file, sessions, stage) ==
  CASE stage = 1 -> file
    [] stage = 2 -> [exists |-> TRUE, text |-> file.text]
    [] stage = 3 -> [exists |-> TRUE, text |-> file.text \o dump_jsons(sessions)]

\* TrainingLog.update_file, what each of its three steps makes of the file:
\* 1 os.remove (taken when it exists), 2 open(file, 'w'), 3 fp.write(...)
update_file(file, sessions, stage) ==
  CASE stage = 1 -> Absent
    [] stage = 2 -> [exists |-> TRUE, text |-> <<>>]
    [] stage = 3 -> [exists |-> TRUE, text |-> file.text \o dump_jsons(sessions)]

\* update_file from its first line to its last
update_file_whole(file, sessions) ==
  LET removed == IF file.exists THEN update_file(file, sessions, 1) ELSE file
      opened == update_file(removed, sessions, 2)
  IN update_file(opened, sessions, 3)

RECURSIVE sorted_by_date(_)
\* sorted(sessions, key=date): stable, ascending
sorted_by_date(sessions) ==
  IF sessions = <<>> THEN <<>>
  ELSE LET init == sorted_by_date(SubSeq(sessions, 1, Len(sessions) - 1))
           x == sessions[Len(sessions)]
           k == Cardinality({i \in 1..Len(init) : init[i].date <= x.date})
       IN SubSeq(init, 1, k) \o <<x>> \o SubSeq(init, k + 1, Len(init))

\* write() that takes the date of the Session appended last
latest_date_of_last(sessions) == sessions[Len(sessions)].date

\* write(): latest_session.date, the date that names the archive
latest_date_of(sessions) == sorted_by_date(sessions)[Len(sessions)].date

\* append that puts the new Session in front
append_session_front(sessions, s) == <<s>> \o sessions

\* append that is skipped when the new Session repeats the last one
append_session_unless_dupe(sessions, s) ==
  IF /\ Len(sessions) # 0
     /\ sessions[Len(sessions)].date = s.date
     /\ sessions[Len(sessions)].routes = s.routes
    THEN sessions
    ELSE Append(sessions, s)

\* update_from_csv_str: log.sessions.append(new_session)
append_session(sessions, s) == Append(sessions, s)

\* update_from_csv_str: the test guarding the 'dupe' message
looks_like_dupe(sessions, s) ==
  Len(sessions) # 0 /\ Session_eq(s, sessions[Len(sessions)])

\* ------------------------------------------------------------------ inputs
\* CSV texts: the shape "grade, type, perf" of _CSV_STR, and ill-formed ones
CSV_ONE == <<"a", ",", "l", ",", "5">>
CSV_PADDED == <<"a", ",", " ", "l", ",", " ", "5">>
CSV_TWO == <<"a", ",", "l", ",", "5", "\n", "b", ",", "t", ",", "7">>
CSV_EMPTY == <<>>
CSV_TWO_FIELDS == <<"a", ",", "l">>
CSV_FOUR_FIELDS == <<"a", ",", "l", ",", "5", ",", "x">>
CSV_NOT_INT == <<"a", ",", "l", ",", "x">>

CsvInputs ==
  {CSV_ONE, CSV_PADDED, CSV_TWO, CSV_EMPTY, CSV_TWO_FIELDS, CSV_FOUR_FIELDS,
   CSV_NOT_INT}

\* sessions/current.json before the first invocation: missing, empty, or
\* holding text that is not a Session (alone, or after a good line)
GoodLine == to_json(Session_init(1, <<TupleRec(<<"a">>, <<"l">>, 5)>>, 1, NoDate))

InitStorage ==
  {Absent,
   [exists |-> TRUE, text |-> <<>>],
   [exists |-> TRUE, text |-> <<JsonJunk>>],
   [exists |-> TRUE, text |-> <<GoodLine, JsonNewline, JsonJunk>>]}

\* ------------------------------------------------------------------- state
VARIABLES
  cur,          \* the file sessions/current.json
  arch,         \* the files sessions/old/result_{date}.json, by date
  pc,           \* position of the running update_from_csv_str, or "idle"
  args,         \* its arguments csv_str and date
  log,          \* its local 'log'
  new_session,  \* its local 'new_session'
  target,       \* which file update_file is working on: "arch" or "cur"
  latest_date,  \* write()'s local 'latest_date'
  dupe_logged,  \* whether the 'dupe' message was logged by this invocation
  calls,        \* number of invocations started
  preCur,       \* history: current.json when the invocation started
  preArch,      \* history: the archives when the invocation started
  storage0,     \* history: current.json before the first invocation
  hist,         \* history: the Sessions of the completed invocations
  rt_pc, rt_in, rt_file, rt_out, rt_one,  \* the round-trip harness
  interrupted,  \* history: where the last killed invocation was stopped
  procB         \* a second process running update_from_csv_str

progVars ==
  <<cur, arch, pc, args, log, new_session, target, latest_date, dupe_logged,
    calls, preCur, preArch, storage0, hist>>
rtVars == <<rt_pc, rt_in, rt_file, rt_out, rt_one>>
envVars == <<interrupted, procB>>
vars == <<progVars, rtVars, envVars>>

NoArgs == [csv |-> <<>>, date |-> NoDate]

\* no invocation was killed so far
NoInterrupt ==
  [at |-> "none", target |-> "arch", date |-> NoDate, journal |-> <<>>,
   calls |-> 0, nhist |-> 0, count |-> 0]

\* the second process is not running
IdleB ==
  [pc |-> "idle", log |-> NoLog, new_session |-> NoSession,
   latest_date |-> NoDate, target |-> "arch"]

EnvIdle == interrupted = NoInterrupt /\ procB = IdleB

RtIdle ==
  /\ rt_pc = "off" /\ rt_in = <<>> /\ rt_file = Absent
  /\ rt_out = [ok |-> TRUE, sessions |-> <<>>]
  /\ rt_one = [s |-> NoSession, back |-> NoSession]

Init ==
  /\ cur \in InitStorage
  /\ arch = [d \in Dates |-> Absent]
  /\ pc = "idle"
  /\ args = NoArgs
  /\ log = NoLog
  /\ new_session = NoSession
  /\ target = "arch"
  /\ latest_date = NoDate
  /\ dupe_logged = FALSE
  /\ calls = 0
  /\ preCur = cur
  /\ preArch = arch
  /\ storage0 = cur
  /\ hist = <<>>
  /\ RtIdle
  /\ EnvIdle

\* ---------------------------------------------------------------- observers
\* the content of a Session in memory: its date and its ordered routes
Content(s) ==
  [date |-> s.date,
   routes |-> [i \in 1..Len(s.routes) |->
                 <<s.routes[i].grade, s.routes[i].type, s.routes[i].perf>>]]

ContentsOf(sessions) == [i \in 1..Len(sessions) |-> Content(sessions[i])]

\* the content of the Session a JSON object of a file stands for
ObjContent(tok) ==
  [date |-> tok.date \div MsPerDay,
   routes |-> [i \in 1..Len(tok.routes) |->
                 <<tok.routes[i].grade, tok.routes[i].type, tok.routes[i].perf>>]]

\* the journal a file holds: its JSON objects in file order
Journal(file) ==
  LET objs == SelectSeq(file.text, LAMBDA t : t.kind = "obj")
  IN [i \in 1..Len(objs) |-> ObjContent(objs[i])]

\* the file is newline-delimited JSON: objects separated by single newlines
OnePerLine(file) ==
  /\ file.exists
  /\ \A i \in 1..Len(file.text) :
       file.text[i].kind = (IF i % 2 = 1 THEN "obj" ELSE "nl")
  /\ Len(file.text) % 2 = (IF file.text = <<>> THEN 0 ELSE 1)

\* the file holds exactly the given Sessions, one per line, and nothing else
HoldsExactly(file, sessions) ==
  OnePerLine(file) /\ Journal(file) = ContentsOf(sessions)

HasJunk(file) == \E i \in 1..Len(file.text) : file.text[i].kind = "junk"

\* the greatest date of a non-empty journal
MaxDateOf(journal) ==
  CHOOSE d \in Dates :
    /\ \E i \in 1..Len(journal) : journal[i].date = d
    /\ \A i \in 1..Len(journal) : journal[i].date <= d

\* ----------------------------------------------- update_from_csv_str, steps
\* a process starts TrainingLog.update_from_csv_str(csv_str, date)
Call ==
  /\ pc = "idle"
  /\ calls < MaxCalls
  /\ \E csv \in CsvInputs, date \in Dates \cup {NoDate} :
       args' = [csv |-> csv, date |-> date]
  /\ pc' = "load"
  /\ calls' = calls + 1
  /\ log' = NoLog
  /\ new_session' = NoSession
  /\ dupe_logged' = FALSE
  /\ latest_date' = NoDate
  /\ target' = "arch"
  /\ preCur' = cur
  /\ preArch' = arch
  /\ UNCHANGED <<cur, arch, storage0, hist, rtVars, envVars>>

\* log = TrainingLog.load()
Load ==
  /\ pc = "load"
  /\ LET r == load(cur) IN
       IF r.ok
         THEN /\ log' = [bound |-> TRUE, sessions |-> r.sessions]
              /\ pc' = "parse"
         ELSE /\ log' = log
              /\ pc' = "failed"
  /\ UNCHANGED <<cur, arch, args, new_session, target, latest_date, dupe_logged,
                 calls, preCur, preArch, storage0, hist, rtVars, envVars>>

\* new_session = Session.from_csv_str(csv_str, date)
Parse ==
  /\ pc = "parse"
  /\ IF from_csv_str_ok(args.csv)
       THEN /\ \E today \in Dates :
                 new_session' = from_csv_str(args.csv, args.date, today,
                                             Len(log.sessions) + 1)
            /\ pc' = "check"
       ELSE /\ new_session' = new_session
            /\ pc' = "failed"
  /\ UNCHANGED <<cur, arch, args, log, target, latest_date, dupe_logged,
                 calls, preCur, preArch, storage0, hist, rtVars, envVars>>

\* if len(log.sessions) != 0: if new_session == log.sessions[-1]: log it
DupeCheck ==
  /\ pc = "check"
  /\ dupe_logged' = looks_like_dupe(log.sessions, new_session)
  /\ pc' = "append"
  /\ UNCHANGED <<cur, arch, args, log, new_session, target, latest_date,
                 calls, preCur, preArch, storage0, hist, rtVars, envVars>>

\* log.sessions.append(new_session)
AppendNew ==
  /\ pc = "append"
  /\ log' = [log EXCEPT !.sessions = append_session(log.sessions, new_session)]
  /\ pc' = "write"
  /\ UNCHANGED <<cur, arch, args, new_session, target, latest_date, dupe_logged,
                 calls, preCur, preArch, storage0, hist, rtVars, envVars>>

\* write() that updates sessions/current.json before the archive
write_order_current_first == <<"cur", "arch">>

\* write(): the two update_file calls, the dated archive then current.json
write_order == <<"arch", "cur">>

\* write(): pick the latest date, then update_file on the archive first
WriteStart ==
  /\ pc = "write"
  /\ latest_date' = latest_date_of(log.sessions)
  /\ target' = write_order[1]
  /\ pc' = "uf_remove"
  /\ UNCHANGED <<cur, arch, args, log, new_session, dupe_logged,
                 calls, preCur, preArch, storage0, hist, rtVars, envVars>>

TargetFile == IF target = "arch" THEN arch[latest_date] ELSE cur

SetTarget(f) ==
  IF target = "arch"
    THEN arch' = [arch EXCEPT ![latest_date] = f] /\ cur' = cur
    ELSE cur' = f /\ arch' = arch

\* update_file: if os.path.exists(file): os.remove(file)
UF_Remove ==
  /\ pc = "uf_remove"
  /\ IF TargetFile.exists
       THEN SetTarget(update_file(TargetFile, log.sessions, 1))
       ELSE UNCHANGED <<cur, arch>>
  /\ pc' = "uf_open"
  /\ UNCHANGED <<args, log, new_session, target, latest_date, dupe_logged,
                 calls, preCur, preArch, storage0, hist, rtVars, envVars>>

\* update_file: open(file, 'w')
UF_Open ==
  /\ pc = "uf_open"
  /\ SetTarget(update_file(TargetFile, log.sessions, 2))
  /\ pc' = "uf_write"
  /\ UNCHANGED <<args, log, new_session, target, latest_date, dupe_logged,
                 calls, preCur, preArch, storage0, hist, rtVars, envVars>>

\* update_file: fp.write(self.dump_jsons()) and the close; write() then goes
\* on to sessions/current.json, or returns
UF_Write ==
  /\ pc = "uf_write"
  /\ SetTarget(update_file(TargetFile, log.sessions, 3))
  /\ IF target = write_order[1]
       THEN target' = write_order[2] /\ pc' = "uf_remove"
       ELSE target' = target /\ pc' = "done"
  /\ UNCHANGED <<args, log, new_session, latest_date, dupe_logged,
                 calls, preCur, preArch, storage0, hist, rtVars, envVars>>

\* the invocation returns, or its exception reaches the caller; its locals die
Return ==
  /\ pc \in {"done", "failed"}
  /\ hist' = IF pc = "done" THEN Append(hist, Content(new_session)) ELSE hist
  /\ pc' = "idle"
  /\ log' = NoLog
  /\ new_session' = NoSession
  /\ UNCHANGED <<cur, arch, args, target, latest_date, dupe_logged,
                 calls, preCur, preArch, storage0, rtVars, envVars>>

Next ==
  \/ Call
  \/ Load
  \/ Parse
  \/ DupeCheck
  \/ AppendNew
  \/ WriteStart
  \/ UF_Remove
  \/ UF_Open
  \/ UF_Write
  \/ Return

Spec == Init /\ [][Next]_vars

\* ------------------------------------------------------------ interruption
\* the process is killed inside update_from_csv_str: its locals are gone,
\* the files stay as its last file operation left them
Crash ==
  /\ pc \in {"load", "parse", "check", "append", "write", "uf_remove",
             "uf_open", "uf_write"}
  /\ interrupted.count < MaxCrashes
  /\ interrupted' =
       [at |-> pc, target |-> target, date |-> latest_date,
        journal |-> ContentsOf(log.sessions), calls |-> calls,
        nhist |-> Len(hist), count |-> interrupted.count + 1]
  /\ pc' = "idle"
  /\ log' = NoLog
  /\ new_session' = NoSession
  /\ UNCHANGED <<cur, arch, args, target, latest_date, dupe_logged, calls,
                 preCur, preArch, storage0, hist, rtVars, procB>>

NextCrash ==
  \/ Call
  \/ Load
  \/ Parse
  \/ DupeCheck
  \/ AppendNew
  \/ WriteStart
  \/ UF_Remove
  \/ UF_Open
  \/ UF_Write
  \/ Return
  \/ Crash

SpecCrash == Init /\ [][NextCrash]_vars

TypeOK ==
  /\ pc \in {"idle", "load", "parse", "check", "append", "write", "uf_remove",
             "uf_open", "uf_write", "done", "failed"}
  /\ calls \in 0..MaxCalls
  /\ target \in {"arch", "cur"}

\* ---------------------------------------------------------- second process
\* Another process runs update_from_csv_str once on the same files.  Its
\* steps are the ones other processes can see: the read of current.json by
\* load() (with the parse, the append and the choice of the archive date,
\* which touch no file), then each update_file call.  An update_file of the
\* second process is taken in one step and only while the first process is
\* not between the open and the close of the same file, so the interleavings
\* covered are those without two writers inside one file at once.
CsvOfB == {CSV_ONE, CSV_TWO}

\* the first process holds this file open for writing, or has just removed it
ABusyOn(t, d) ==
  /\ pc \in {"uf_open", "uf_write"}
  /\ target = t
  /\ (t = "arch" => latest_date = d)

\* lines 108-114 and 99-101 in the second process
B_Load ==
  /\ procB.pc = "idle"
  /\ \E csv \in CsvOfB, date \in Dates :
       LET r == load(cur)
           new == from_csv_str(csv, date, date, Len(r.sessions) + 1)
           sessions == append_session(r.sessions, new)
       IN IF r.ok
            THEN procB' = [pc |-> "write",
                           log |-> [bound |-> TRUE, sessions |-> sessions],
                           new_session |-> new,
                           latest_date |-> latest_date_of(sessions),
                           target |-> write_order[1]]
            ELSE procB' = [procB EXCEPT !.pc = "ended"]
  /\ UNCHANGED <<progVars, rtVars, interrupted>>

\* lines 102 and 103 in the second process: one update_file call
B_UpdateFile ==
  /\ procB.pc = "write"
  /\ ~ABusyOn(procB.target, procB.latest_date)
  /\ IF procB.target = "arch"
       THEN /\ arch' = [arch EXCEPT ![procB.latest_date] =
                          update_file_whole(@, procB.log.sessions)]
            /\ cur' = cur
       ELSE /\ cur' = update_file_whole(cur, procB.log.sessions)
            /\ arch' = arch
  /\ procB' = IF procB.target = write_order[1]
                THEN [procB EXCEPT !.target = write_order[2]]
                ELSE [procB EXCEPT !.pc = "ended"]
  /\ UNCHANGED <<pc, args, log, new_session, target, latest_date, dupe_logged,
                 calls, preCur, preArch, storage0, hist, rtVars, interrupted>>

\* the first process starts an invocation while the second may be running
ConcCall == calls < MaxConcCalls /\ Call

NextConc ==
  \/ ConcCall
  \/ Load
  \/ Parse
  \/ DupeCheck
  \/ AppendNew
  \/ WriteStart
  \/ UF_Remove
  \/ UF_Open
  \/ UF_Write
  \/ Return
  \/ B_Load
  \/ B_UpdateFile

SpecConc == Init /\ [][NextConc]_vars

\* ------------------------------------------------------ round-trip harness
\* The serialization functions applied to arbitrary logs: rt_in is a log of
\* at most MaxLen Sessions built by from_csv_str, rt_file a file of any
\* previous content.
CsvAccepted == {csv \in CsvInputs : from_csv_str_ok(csv)}

LogsUpTo(n) ==
  UNION {{[i \in 1..k |-> from_csv_str(f[i][1], f[i][2], f[i][2], i)] :
            f \in [1..k -> CsvAccepted \X Dates]} : k \in 0..n}

InitRT ==
  /\ cur = Absent
  /\ arch = [d \in Dates |-> Absent]
  /\ pc = "idle"
  /\ args = NoArgs
  /\ log = NoLog
  /\ new_session = NoSession
  /\ target = "arch"
  /\ latest_date = NoDate
  /\ dupe_logged = FALSE
  /\ calls = 0
  /\ preCur = cur
  /\ preArch = arch
  /\ storage0 = cur
  /\ hist = <<>>
  /\ rt_pc = "start"
  /\ rt_in \in LogsUpTo(MaxLen)
  /\ rt_file \in InitStorage
  /\ rt_out = [ok |-> TRUE, sessions |-> <<>>]
  /\ rt_one = [s |-> NoSession, back |-> NoSession]
  /\ EnvIdle

\* TrainingLog(rt_in).update_file(path)
RT_UpdateFile ==
  /\ rt_pc = "start"
  /\ rt_file' = update_file_whole(rt_file, rt_in)
  /\ rt_pc' = "written"
  /\ UNCHANGED <<rt_in, rt_out, rt_one, progVars, envVars>>

\* update_file(path) a second time, the log now holding something else
RT_UpdateFileAgain ==
  /\ rt_pc = "written"
  /\ \E other \in LogsUpTo(1) :
       /\ ContentsOf(other) # ContentsOf(rt_in)
       /\ rt_in' = other
       /\ rt_file' = update_file_whole(rt_file, other)
  /\ rt_pc' = "rewritten"
  /\ UNCHANGED <<rt_out, rt_one, progVars, envVars>>

\* TrainingLog.load() over the file update_file wrote
RT_Load ==
  /\ rt_pc \in {"written", "rewritten"}
  /\ rt_out' = load(rt_file)
  /\ rt_pc' = "loaded"
  /\ UNCHANGED <<rt_in, rt_file, rt_one, progVars, envVars>>

\* Session.from_json(s.to_json()) for a Session s of the log: a new object
RT_SessionRoundTrip ==
  /\ rt_pc = "start"
  /\ \E i \in 1..Len(rt_in) :
       rt_one' = [s |-> rt_in[i],
                  back |-> from_json(<<to_json(rt_in[i])>>, Len(rt_in) + 1)]
  /\ rt_pc' = "session"
  /\ UNCHANGED <<rt_in, rt_file, rt_out, progVars, envVars>>

\* an idx that is no position of the route lists used here
ForeignIdx == 5

\* Session(routes, date) with routes given as mappings that carry an idx of
\* their own, the same for every route
RT_SessionFromMappings ==
  /\ rt_pc = "start"
  /\ \E i \in 1..Len(rt_in) :
       rt_one' =
         [s |-> rt_in[i],
          back |-> Session_init(
                     Len(rt_in) + 1,
                     [j \in 1..Len(rt_in[i].routes) |->
                        DictRec([idx |-> ForeignIdx,
                                 grade |-> rt_in[i].routes[j].grade,
                                 type |-> rt_in[i].routes[j].type,
                                 perf |-> rt_in[i].routes[j].perf])],
                     rt_in[i].date, NoDate)]
  /\ rt_pc' = "mappings"
  /\ UNCHANGED <<rt_in, rt_file, rt_out, progVars, envVars>>

\* the loaded log is the log of the next dump / load cycle
RT_Reload ==
  /\ rt_pc = "loaded"
  /\ rt_out.ok
  /\ rt_in' = rt_out.sessions
  /\ rt_pc' = "start"
  /\ UNCHANGED <<rt_file, rt_out, rt_one, progVars, envVars>>

NextRT ==
  \/ RT_UpdateFile
  \/ RT_UpdateFileAgain
  \/ RT_Load
  \/ RT_SessionRoundTrip
  \/ RT_SessionFromMappings
  \/ RT_Reload

SpecRT == InitRT /\ [][NextRT]_vars

\* ------------------------------------------------------------------ claims

\* C1: every successful update_from_csv_str leaves in sessions/current.json
\* the journal that was there before (empty when the file was missing), in
\* the same order, followed by the new Session; so from absent storage the
\* file holds the Sessions of the n successful invocations, in their order.
C1_AppendsExactlyOne ==
  /\ pc = "done" =>
       /\ OnePerLine(cur)
       /\ Journal(cur) = Journal(preCur) \o <<Content(new_session)>>
  /\ (pc = "idle" /\ ~storage0.exists) =>
       /\ Journal(cur) = hist
       /\ Len(Journal(cur)) = Len(hist)

C1_Witness ==
  /\ pc = "done"
  /\ ~storage0.exists
  /\ Len(hist) = 2
  /\ hist[1] # hist[2]
  /\ Content(new_session) # hist[2]

\* C2: when write() has completed, the archive named for the latest session
\* date and sessions/current.json hold the same text, and that text is the
\* whole in-memory log, one Session per line, in log order.
C2_WriteTwoIdenticalCopies ==
  pc = "done" =>
    /\ arch[MaxDateOf(ContentsOf(log.sessions))].exists
    /\ arch[MaxDateOf(ContentsOf(log.sessions))] = cur
    /\ HoldsExactly(cur, log.sessions)

C2_Witness ==
  /\ pc = "done"
  /\ Len(log.sessions) = 3
  /\ log.sessions[3].date < log.sessions[2].date

\* C3: the archive is named by the greatest date in the log, not by the date
\* of the Session appended last: when the new Session is dated before a
\* Session already in the log, the archive of the greatest date is the one
\* written, and the archive of the new Session's date is left as it was.
C3_ArchiveNamedByMaxDate ==
  (/\ pc = "done"
   /\ Journal(preCur) # <<>>
   /\ new_session.date < MaxDateOf(Journal(preCur))) =>
    /\ HoldsExactly(arch[MaxDateOf(Journal(preCur))], log.sessions)
    /\ arch[new_session.date] = preArch[new_session.date]

C3_Witness ==
  /\ pc = "done"
  /\ Journal(preCur) # <<>>
  /\ new_session.date < MaxDateOf(Journal(preCur))
  /\ ~arch[new_session.date].exists

\* C4: a new Session with the content of the journal's last Session is
\* appended all the same: afterwards current.json and the dated archive both
\* end with two Sessions of that content.
C4_DuplicateStillAppended ==
  (/\ pc = "done"
   /\ Journal(preCur) # <<>>
   /\ Journal(preCur)[Len(Journal(preCur))] = Content(new_session)) =>
    \A f \in {cur, arch[MaxDateOf(Journal(cur))]} :
      /\ Len(Journal(f)) = Len(Journal(preCur)) + 1
      /\ Journal(f)[Len(Journal(f))] = Content(new_session)
      /\ Journal(f)[Len(Journal(f)) - 1] = Content(new_session)

C4_Witness ==
  /\ pc = "done"
  /\ Len(Journal(preCur)) = 2
  /\ Journal(preCur)[2] = Content(new_session)
  /\ Journal(preCur)[1] # Content(new_session)

\* C5: in update_from_csv_str, with a non-empty loaded log, the 'dupe'
\* branch is taken exactly when the new Session has the date and the ordered
\* routes of the last Session of the log.
C5_DupeBranchTaken ==
  (pc = "append" /\ Len(log.sessions) # 0) =>
    (dupe_logged <=>
       Content(new_session) = Content(log.sessions[Len(log.sessions)]))

\* C6: for any log L (empty, or with repeated Sessions), load() over the
\* file that holds dump_jsons(L) gives as many Sessions as L has, each with
\* the date and the routes of the Session of L at the same position.
C6_JournalRoundTrip ==
  rt_pc = "loaded" =>
    /\ rt_out.ok
    /\ Len(rt_out.sessions) = Len(rt_in)
    /\ \A i \in 1..Len(rt_in) :
         /\ rt_out.sessions[i].date = rt_in[i].date
         /\ rt_out.sessions[i].routes = rt_in[i].routes

C6_Witness ==
  /\ rt_pc = "loaded"
  /\ Len(rt_in) = 2
  /\ Content(rt_in[1]) = Content(rt_in[2])
  /\ Len(rt_in[1].routes) = 2

\* C7: Session.from_json(s.to_json()) equals s under the equality the
\* program applies to Sessions (the == of update_from_csv_str).
C7_SessionRoundTripEqual ==
  rt_pc = "session" => Session_eq(rt_one.back, rt_one.s)

\* C8: update_file(path) leaves at path exactly the serialization of the
\* log's Sessions, whatever the file held before; after a second update_file
\* with another log content only the second content is there.
C8_FullReplace ==
  rt_pc \in {"written", "rewritten"} => HoldsExactly(rt_file, rt_in)

C8_Witness ==
  /\ rt_pc = "rewritten"
  /\ Len(rt_in) = 1
  /\ Len(rt_in[1].routes) = 1

\* C9: when update_from_csv_str fails before the write (a line of the storage
\* file is not a Session, or the CSV is one from_csv_str raises on), the
\* invocation ends in the error, no log was built from the readable lines,
\* and current.json and every archive are as they were at the call.
C9_FailureLeavesStorage ==
  /\ (pc \notin {"idle", "load"} /\ HasJunk(preCur)) =>
       (pc = "failed" /\ ~log.bound)
  /\ (pc \notin {"idle", "load", "parse"}
      /\ args.csv \in {CSV_TWO_FIELDS, CSV_NOT_INT}) =>
       (pc = "failed" /\ ~new_session.bound)
  /\ pc = "failed" => (cur = preCur /\ arch = preArch)

C9_Witness ==
  /\ pc = "failed"
  /\ HasJunk(preCur)
  /\ Journal(preCur) # <<>>

\* the number of comma-separated fields of a CSV line
FieldCount(route_line) ==
  1 + Cardinality({i \in 1..Len(route_line) : route_line[i] = COMMA})

\* a CSV with a line that has not exactly three fields or no integer third
Malformed(csv_str) ==
  \E i \in 1..Len(splitlines(csv_str)) :
    \/ FieldCount(splitlines(csv_str)[i]) # 3
    \/ ~int_ok(split(splitlines(csv_str)[i], COMMA)[3])

\* C10: Session.from_csv_str raises on every input with a line that has not
\* exactly three fields or whose third field is not an integer; no Session
\* is built from such input.
C10_MalformedCsvRejected ==
  (pc \notin {"idle", "load", "parse"} /\ Malformed(args.csv)) =>
    (pc = "failed" /\ ~new_session.bound)

\* C11: load() on a missing sessions/current.json gives the empty log and no
\* error, so an update_from_csv_str on absent storage fails only on its CSV
\* and otherwise leaves a journal of exactly one Session, the new one.
C11_MissingStorageIsEmptyLog ==
  /\ (pc = "parse" /\ ~preCur.exists) => (log.bound /\ log.sessions = <<>>)
  /\ (pc = "failed" /\ ~preCur.exists) =>
       args.csv \in {CSV_TWO_FIELDS, CSV_NOT_INT}
  /\ (pc = "done" /\ ~preCur.exists) =>
       /\ OnePerLine(cur)
       /\ Journal(cur) = <<Content(new_session)>>

C11_Witness ==
  /\ pc = "done"
  /\ ~preCur.exists
  /\ calls = 1
  /\ Len(new_session.routes) = 2

\* a route of a file's JSON object outside the perf scale 0..5
PerfInScale(file) ==
  \A i \in 1..Len(file.text) :
    \A j \in 1..Len(file.text[i].routes) : file.text[i].routes[j].perf \in 0..5

\* C16: every route of every Session of the persisted journal (current.json
\* and the archives) has a perf in 0..5, whatever accepted CSV was given.
C16_PerfInScale ==
  PerfInScale(cur) /\ \A d \in Dates : PerfInScale(arch[d])

\* the journals the successful invocations left, one after the other
JournalAfter(k) == SubSeq(hist, 1, k)

\* the successful invocations whose write had d as its greatest date
WritesFor(d) == {k \in 1..Len(hist) : MaxDateOf(JournalAfter(k)) = d}

Latest(ks) == CHOOSE k \in ks : \A j \in ks : j <= k

\* C13: between invocations, the archive of date D holds the whole journal
\* as it was at the most recent write whose greatest session date was D (a
\* later write with that greatest date has replaced it, writes with another
\* greatest date have not touched it); there is no archive for a date that
\* was never the greatest.
C13_ArchiveIsLatestSnapshot ==
  (pc = "idle" /\ Journal(storage0) = <<>> /\ ~HasJunk(storage0)) =>
    \A d \in Dates :
      IF WritesFor(d) = {}
        THEN ~arch[d].exists
        ELSE /\ OnePerLine(arch[d])
             /\ Journal(arch[d]) = JournalAfter(Latest(WritesFor(d)))

C13_Witness ==
  /\ pc = "idle"
  /\ ~storage0.exists
  /\ Len(hist) = 3
  /\ WritesFor(1) = {1}
  /\ WritesFor(2) = {2, 3}
  /\ hist[3].date = 1

IsPrefix(a, b) == Len(a) <= Len(b) /\ a = SubSeq(b, 1, Len(a))

\* C19: from absent storage, between invocations, every archive that exists
\* holds a prefix of the journal of current.json, and the archive of the
\* journal's greatest date is equal to current.json.
C19_ArchivesArePrefixes ==
  (pc = "idle" /\ ~storage0.exists /\ hist # <<>>) =>
    /\ \A d \in Dates :
         arch[d].exists =>
           (OnePerLine(arch[d]) /\ IsPrefix(Journal(arch[d]), Journal(cur)))
    /\ arch[MaxDateOf(Journal(cur))] = cur

C19_Witness ==
  /\ pc = "idle"
  /\ ~storage0.exists
  /\ Len(hist) = 3
  /\ arch[1].exists /\ arch[2].exists
  /\ Len(Journal(arch[1])) = 1
  /\ Len(Journal(arch[2])) = 3

\* the routes of a Session in memory are numbered 0..N-1 in their order
Indexed(s) == \A i \in 1..Len(s.routes) : s.routes[i].index = i - 1

\* the routes of every JSON object of a file carry idx 0..N-1 in their order
FileIndexed(file) ==
  \A i \in 1..Len(file.text) :
    \A j \in 1..Len(file.text[i].routes) : file.text[i].routes[j].idx = j - 1

\* C12: a Session built from N route records, tuples or mappings (mappings
\* with an idx of their own included), has routes indexed 0..N-1 in input
\* order; so has every Session of a journal, in memory and in the file,
\* after any number of dump / load cycles.
C12_PositionalIndex ==
  /\ \A i \in 1..Len(rt_in) : Indexed(rt_in[i])
  /\ \A i \in 1..Len(rt_out.sessions) : Indexed(rt_out.sessions[i])
  /\ FileIndexed(rt_file)
  /\ rt_pc = "mappings" =>
       /\ Indexed(rt_one.back)
       /\ Len(rt_one.back.routes) = Len(rt_one.s.routes)

C12_Witness ==
  /\ rt_pc = "mappings"
  /\ Len(rt_one.back.routes) = 2

\* the file the killed update_file was working on
DamagedFile ==
  IF interrupted.target = "arch" THEN arch[interrupted.date] ELSE cur

\* the last kill fell inside update_file between the removal and the write,
\* and no invocation has written a file since
KilledBeforeWrite ==
  /\ interrupted.at \in {"uf_open", "uf_write"}
  /\ Len(hist) = interrupted.nhist
  /\ pc \in {"idle", "load", "parse", "check", "append", "write", "failed"}

\* C14: an invocation killed inside update_file after the removal and before
\* the write leaves that file missing, or empty once opened; nothing the
\* program does later notices or repairs it: the file stays so until a later
\* write, and a later load of a damaged current.json runs without error on
\* the empty log.
C14_InterruptedUpdateLosesFile ==
  KilledBeforeWrite =>
    /\ DamagedFile.text = <<>>
    /\ DamagedFile.exists = (interrupted.at = "uf_write")
    /\ (interrupted.target = "cur" /\ pc \in {"parse", "check"}) =>
         (log.bound /\ log.sessions = <<>>)
    /\ pc = "failed" => args.csv \in {CSV_TWO_FIELDS, CSV_NOT_INT}

C14_Witness ==
  /\ KilledBeforeWrite
  /\ pc = "parse"
  /\ interrupted.target = "cur"
  /\ interrupted.at = "uf_open"
  /\ Len(interrupted.journal) = 2

\* C17: the archive is updated before current.json, so at every point of an
\* invocation, and after a kill at any point of it, current.json is still
\* as it was at the call, or the archive of the latest session date already
\* holds the whole journal the invocation was writing.
C17_ArchiveBeforeCurrent ==
  /\ pc # "idle" =>
       \/ cur = preCur
       \/ /\ log.bound
          /\ HoldsExactly(arch[MaxDateOf(ContentsOf(log.sessions))], log.sessions)
  /\ (pc = "idle" /\ interrupted.at # "none" /\ interrupted.calls = calls) =>
       \/ cur = preCur
       \/ /\ OnePerLine(arch[MaxDateOf(interrupted.journal)])
          /\ Journal(arch[MaxDateOf(interrupted.journal)]) = interrupted.journal

C17_Witness ==
  /\ pc = "idle"
  /\ interrupted.at = "uf_write"
  /\ interrupted.target = "cur"
  /\ interrupted.calls = calls
  /\ cur # preCur
  /\ Len(interrupted.journal) = 2

\* C18: after a kill between the removal of current.json and its rewrite,
\* the next invocation that succeeds loaded the empty log and leaves
\* current.json holding the new Session only; when the new Session has the
\* latest date of the killed write, the archive of that date is overwritten
\* with this one-Session journal too.
C18_NextInvocationStartsOver ==
  (/\ pc = "done"
   /\ interrupted.at \in {"uf_open", "uf_write"}
   /\ interrupted.target = "cur"
   /\ Len(hist) = interrupted.nhist) =>
    /\ Len(log.sessions) = 1
    /\ OnePerLine(cur)
    /\ Journal(cur) = <<Content(new_session)>>
    /\ new_session.date = interrupted.date =>
         /\ OnePerLine(arch[interrupted.date])
         /\ Journal(arch[interrupted.date]) = <<Content(new_session)>>

C18_Witness ==
  /\ pc = "done"
  /\ interrupted.at = "uf_open"
  /\ interrupted.target = "cur"
  /\ Len(hist) = interrupted.nhist
  /\ Len(interrupted.journal) = 2
  /\ new_session.date = interrupted.date
  /\ Journal(cur) = <<Content(new_session)>>

\* the log a finished or running invocation had loaded: all but its own
LoadedBy(sessions) == ContentsOf(SubSeq(sessions, 1, Len(sessions) - 1))

\* both processes have written, and both had loaded the same journal
BothWroteFromSameLoad ==
  /\ pc = "done"
  /\ procB.pc = "ended"
  /\ procB.log.bound
  /\ LoadedBy(log.sessions) = LoadedBy(procB.log.sessions)

\* C15: two invocations in separate processes are not kept apart: when both
\* load the journal before either rewrites current.json, the file ends as
\* the journal of one of them, one Session longer than what they loaded, so
\* the Session the other appended is not in it.
C15_LostUpdate ==
  BothWroteFromSameLoad =>
    /\ OnePerLine(cur)
    /\ Journal(cur) \in {ContentsOf(log.sessions), ContentsOf(procB.log.sessions)}
    /\ Len(Journal(cur)) = Len(LoadedBy(log.sessions)) + 1

C15_Witness ==
  /\ BothWroteFromSameLoad
  /\ Len(LoadedBy(log.sessions)) = 1
  /\ Journal(cur) = ContentsOf(procB.log.sessions)
  /\ \A i \in 1..Len(Journal(cur)) : Journal(cur)[i] # Content(new_session)

====
